---- MODULE Spec2Model ----
(***************************************************************************)
(* A model of src/daily_digest_india_local.py: the India daily news digest *)
(* (feed collection, URL de-duplication against sent.json, page            *)
(* extraction with fallback, the filter chain, summarisation with its      *)
(* extractive fallback, delivery and persistence of the sent set).         *)
(*                                                                         *)
(* A Python str is a sequence of one-character strings; None is the value  *)
(* None below, which is no such sequence.                                  *)
(***************************************************************************)
EXTENDS Integers, Sequences, FiniteSets, TLC

VARIABLES
    \* module-level configuration (src lines 80-97)
    FEED_URLS,           \* the feeds: what feedparser.parse gives for each URL
    ALLOW_DOMAINS,
    INCLUDE_KEYWORDS,
    EXCLUDE_KEYWORDS,
    MAX_ITEMS,
    MAX_PER_FEED,
    MIN_ARTICLE_LENGTH,
    DRY_RUN,
    GOOGLE_API_KEY,
    GEMINI_AVAILABLE,
    CREDENTIALS,         \* SENDER_EMAIL and RECEIVER_EMAIL and APP_PASSWORD
    PERSIST_SENT,
    \* the file SENT_FILE on disk
    SENT_FILE,
    \* the network: for each URL, the outcomes a fetch of it can have
    WEB,
    \* one run of main()
    pc,                  \* position of main / collect_and_summarize
    run,                 \* number of the current run of main
    sent,                \* collect_and_summarize's local `sent`
    candidates,          \* the sorted candidate list
    pos,                 \* index of the next candidate of the for loop
    collected,           \* collect_and_summarize's local `collected`
    \* observation of the run (what was called for which candidate, what the
    \* runs before did); read by the properties only
    log,
    hist,
    \* harness of the pure functions: the arguments and the value returned
    arg,
    ret

cfgVars == <<FEED_URLS, ALLOW_DOMAINS, INCLUDE_KEYWORDS, EXCLUDE_KEYWORDS,
             MAX_ITEMS, MAX_PER_FEED, MIN_ARTICLE_LENGTH, DRY_RUN,
             GOOGLE_API_KEY, GEMINI_AVAILABLE, CREDENTIALS, PERSIST_SENT>>
runVars == <<pc, run, sent, candidates, pos, collected, log, hist>>
vars == <<cfgVars, WEB, SENT_FILE, runVars, arg, ret>>

(***************************************************************************)
(* Python values                                                           *)
(***************************************************************************)
None == <<"None">>

Truthy(x) == x # None /\ x # <<>>

Min2(a, b) == IF a <= b THEN a ELSE b

Max2(a, b) == IF a >= b THEN a ELSE b

\* seq[:n], for a list or a str
PySliceTo(s, n) ==
    IF n >= 0 THEN SubSeq(s, 1, Min2(n, Len(s)))
    ELSE SubSeq(s, 1, Max2(Len(s) + n, 0))

Whitespace == {" ", "\n"}

RECURSIVE LStrip(_)
LStrip(s) ==
    IF s # <<>> /\ Head(s) \in Whitespace THEN LStrip(Tail(s)) ELSE s

RECURSIVE RStrip(_)
RStrip(s) ==
    IF s # <<>> /\ s[Len(s)] \in Whitespace
    THEN RStrip(SubSeq(s, 1, Len(s) - 1)) ELSE s

\* str.strip()
Strip(s) == RStrip(LStrip(s))

LowerMap == [c \in {"A", "B", "H", "W", "X"} |->
                CASE c = "A" -> "a" [] c = "B" -> "b" [] c = "H" -> "h"
                  [] c = "W" -> "w" [] c = "X" -> "x"]

\* str.lower()
Lower(s) == [i \in 1..Len(s) |->
                IF s[i] \in DOMAIN LowerMap THEN LowerMap[s[i]] ELSE s[i]]

\* k in s, for two str
IsSubstr(k, s) ==
    \E i \in 0..(Len(s) - Len(k)) : SubSeq(s, i + 1, i + Len(k)) = k

\* s.replace(old, ""), old non-empty: every occurrence, left to right
RECURSIVE RemoveAll(_, _)
RemoveAll(s, old) ==
    IF Len(s) < Len(old) THEN s
    ELSE IF SubSeq(s, 1, Len(old)) = old
         THEN RemoveAll(SubSeq(s, Len(old) + 1, Len(s)), old)
         ELSE <<Head(s)>> \o RemoveAll(Tail(s), old)

\* sep.join(parts)
RECURSIVE Join(_, _)
Join(sep, parts) ==
    IF parts = <<>> THEN <<>>
    ELSE IF Len(parts) = 1 THEN parts[1]
    ELSE parts[1] \o sep \o Join(sep, Tail(parts))

(***************************************************************************)
(* domain_of                                                               *)
(***************************************************************************)
\* urlparse(url).netloc: a URL is [scheme] "//" netloc [path...]; the scheme
\* with its colon is one element ("http:") of the sequence.
Netloc(url) ==
    LET rest == IF url # <<>> /\ Head(url) = "http:" THEN Tail(url) ELSE url
    IN  IF Len(rest) >= 2 /\ rest[1] = "/" /\ rest[2] = "/"
        THEN LET body == SubSeq(rest, 3, Len(rest))
                 stops == {i \in 1..Len(body) : body[i] \in {"/", "?", "#"}}
                 e == IF stops = {} THEN Len(body)
                      ELSE (CHOOSE i \in stops : \A j \in stops : i <= j) - 1
             IN  SubSeq(body, 1, e)
        ELSE <<>>

Www == <<"w", "w", "w", ".">>

domain_of(url) == RemoveAll(Lower(Netloc(url)), Www)

(***************************************************************************)
(* simple_extractive_summary, summarize                                    *)
(***************************************************************************)
\* re.sub(r'\s+', ' ', text)
RECURSIVE CollapseWs(_)
CollapseWs(s) ==
    IF s = <<>> THEN <<>>
    ELSE IF Head(s) \in Whitespace
         THEN <<" ">> \o CollapseWs(LStrip(Tail(s)))
         ELSE <<Head(s)>> \o CollapseWs(Tail(s))

SentenceEnd == {".", "?", "!"}

\* _SENTENCE_SPLIT_RE.split(text), the pattern being (?<=[\.\?\!])\s+
RECURSIVE SentenceSplit(_)
SentenceSplit(s) ==
    LET cuts == {i \in 2..Len(s) :
                    s[i] \in Whitespace /\ s[i - 1] \in SentenceEnd}
    IN  IF cuts = {} THEN <<s>>
        ELSE LET i == CHOOSE c \in cuts : \A d \in cuts : c <= d
             IN  <<SubSeq(s, 1, i - 1)>>
                 \o SentenceSplit(LStrip(SubSeq(s, i, Len(s))))

DefaultMaxSentences == 3

Ellipsis == <<".", ".", ".">>

BulletLine(b) == <<"-", " ">> \o Strip(b)

simple_extractive_summary(text, max_sentences) ==
    LET t == Strip(CollapseWs(IF Truthy(text) THEN text ELSE <<>>))
    IN  IF t = <<>> THEN <<>>
        ELSE LET sentences == SentenceSplit(t)
                 chosen == PySliceTo(sentences, max_sentences)
                 headline == IF chosen # <<>> THEN chosen[1]
                             ELSE PySliceTo(t, 100) \o Ellipsis
                 bullets == IF Len(chosen) > 1 THEN Tail(chosen)
                            ELSE PySliceTo(chosen, max_sentences)
                 bullets_txt ==
                     IF bullets # <<>>
                     THEN Join(<<"\n">>,
                               [i \in 1..Len(bullets) |-> BulletLine(bullets[i])])
                     ELSE <<>>
             IN  Strip(headline) \o <<"\n">> \o bullets_txt

\* str(resp) of a response object: its repr, which is not made from the text
StrOfResp == <<"<", "r", "e", "s", "p", ">">>

\* gen is what the generative client does when called: it raises (configure,
\* GenerativeModel, generate_content or the .text property), or it returns a
\* response that has a text attribute or not.
summarize(title, text, gen) ==
    IF Truthy(GOOGLE_API_KEY) /\ GEMINI_AVAILABLE
    THEN IF gen.raises THEN simple_extractive_summary(text, DefaultMaxSentences)
         ELSE IF gen.hasText /\ Truthy(gen.text) THEN Strip(gen.text)
         ELSE StrOfResp
    ELSE simple_extractive_summary(text, DefaultMaxSentences)

(***************************************************************************)
(* passes_filters                                                          *)
(***************************************************************************)
\* getattr(entry, name, default) or ...: an absent attribute is None
Attr(entry, name) == entry[name]

EntrySummary(entry) ==
    IF Truthy(Attr(entry, "summary")) THEN Attr(entry, "summary")
    ELSE IF Truthy(Attr(entry, "description")) THEN Attr(entry, "description")
    ELSE <<>>

EntryLink(entry) ==
    IF Truthy(Attr(entry, "link")) THEN Attr(entry, "link") ELSE <<>>

\* the first keyword of the list kws that occurs in combined, or None
RECURSIVE FirstMatch(_, _)
FirstMatch(kws, combined) ==
    IF kws = <<>> THEN None
    ELSE IF Head(kws) # <<>> /\ IsSubstr(Head(kws), combined) THEN Head(kws)
    ELSE FirstMatch(Tail(kws), combined)

\* line 215, with the bug of preferring the feed summary to the text
effective_len_summary_first(entry, extracted_text) ==
    IF Truthy(EntrySummary(entry)) THEN Len(EntrySummary(entry))
    ELSE Len(IF Truthy(extracted_text) THEN extracted_text ELSE <<>>)

effective_len(entry, extracted_text) ==
    IF Truthy(extracted_text) THEN Len(extracted_text)
    ELSE Len(Lower(EntrySummary(entry)))

\* passes_filters with the include check moved before the exclude check
passes_filters_include_first(entry, extracted_text) ==
    LET url == EntryLink(entry)
        title == Lower(IF Truthy(Attr(entry, "title"))
                       THEN Attr(entry, "title") ELSE <<>>)
        summary == Lower(EntrySummary(entry))
        dom == domain_of(url)
        combined == title \o <<" ">> \o summary
        excl == FirstMatch(EXCLUDE_KEYWORDS, combined)
    IN  IF ALLOW_DOMAINS # {}
           /\ ~ \E allow \in ALLOW_DOMAINS : IsSubstr(allow, dom)
        THEN <<FALSE, <<"domain_not_allowed", dom>>>>
        ELSE IF INCLUDE_KEYWORDS # <<>>
                /\ ~ \E i \in 1..Len(INCLUDE_KEYWORDS) :
                         IsSubstr(INCLUDE_KEYWORDS[i], combined)
        THEN <<FALSE, <<"include_keywords_not_matched">>>>
        ELSE IF excl # None
        THEN <<FALSE, <<"exclude_keyword", excl>>>>
        ELSE IF effective_len(entry, extracted_text) < MIN_ARTICLE_LENGTH
        THEN <<FALSE, <<"too_short", effective_len(entry, extracted_text)>>>>
        ELSE <<TRUE, <<"ok">>>>

passes_filters(entry, extracted_text) ==
    LET url == EntryLink(entry)
        title == Lower(IF Truthy(Attr(entry, "title"))
                       THEN Attr(entry, "title") ELSE <<>>)
        summary == Lower(EntrySummary(entry))
        dom == domain_of(url)
        combined == title \o <<" ">> \o summary
        excl == FirstMatch(EXCLUDE_KEYWORDS, combined)
    IN  IF ALLOW_DOMAINS # {}
           /\ ~ \E allow \in ALLOW_DOMAINS : IsSubstr(allow, dom)
        THEN <<FALSE, <<"domain_not_allowed", dom>>>>
        ELSE IF excl # None
        THEN <<FALSE, <<"exclude_keyword", excl>>>>
        ELSE IF INCLUDE_KEYWORDS # <<>>
                /\ ~ \E i \in 1..Len(INCLUDE_KEYWORDS) :
                         IsSubstr(INCLUDE_KEYWORDS[i], combined)
        THEN <<FALSE, <<"include_keywords_not_matched">>>>
        ELSE IF effective_len(entry, extracted_text) < MIN_ARTICLE_LENGTH
        THEN <<FALSE, <<"too_short", effective_len(entry, extracted_text)>>>>
        ELSE <<TRUE, <<"ok">>>>

(***************************************************************************)
(* Inputs of the bounded checks                                            *)
(***************************************************************************)
\* "a" * n
Rep(n) == [i \in 1..n |-> "a"]

\* all sequences over S of length at most n
SeqsUpTo(S, n) == UNION {[1..k -> S] : k \in 0..n}

RECURSIVE Flatten(_)
Flatten(ss) == IF ss = <<>> THEN <<>> ELSE Head(ss) \o Flatten(Tail(ss))

HostAllowed == <<"h", ".", "i", "n">>
HostOther == <<"x", ".", "c", "o">>

\* http://www.h.in/a   http://H.in/b   http://x.co/a
U1 == <<"http:", "/", "/", "w", "w", "w", ".", "h", ".", "i", "n", "/", "a">>
U2 == <<"http:", "/", "/", "H", ".", "i", "n", "/", "b">>
U3 == <<"http:", "/", "/", "x", ".", "c", "o", "/", "a">>

ApiKey == <<"k">>

\* the state outside the part a specification exercises
IdleRun ==
    /\ pc = "idle" /\ run = 0 /\ sent = {} /\ candidates = <<>> /\ pos = 0
    /\ collected = <<>> /\ log = <<>> /\ hist = <<>>

(***************************************************************************)
(* Inputs of the runs                                                      *)
(***************************************************************************)
MaxEntries == 3
MaxItems == 2
MaxRuns == 2

RunMinLength == 2
ShortPageText == Rep(RunMinLength - 1)
LongSummary == Rep(RunMinLength)
LongPage == Rep(RunMinLength + 1)

NoTime == <<>>

\* the entries a feed can hold
EntryA == [link |-> U1, title |-> <<"a">>, summary |-> LongSummary,
           description |-> None, published_parsed |-> <<2>>,
           updated_parsed |-> NoTime]
EntryB == [link |-> U2, title |-> None, summary |-> None,
           description |-> None, published_parsed |-> NoTime,
           updated_parsed |-> <<2>>]
EntryC == [link |-> U3, title |-> <<"a">>, summary |-> LongSummary,
           description |-> None, published_parsed |-> NoTime,
           updated_parsed |-> NoTime]
EntryD == [link |-> <<>>, title |-> <<"a">>, summary |-> LongSummary,
           description |-> None, published_parsed |-> <<1>>,
           updated_parsed |-> NoTime]
EntryE == [link |-> U2, title |-> <<"a">>, summary |-> None,
           description |-> LongSummary, published_parsed |-> <<1>>,
           updated_parsed |-> <<2>>]

EntryPool == {EntryA, EntryB, EntryC, EntryD, EntryE}

NowValues == {2, 3}

Urls == {U1, U2, U3}

PageRequestError == [error |-> "request", text |-> <<>>]
PageOtherError == [error |-> "other", text |-> <<>>]
PageShort == [error |-> "none", text |-> ShortPageText]
PageLong == [error |-> "none", text |-> LongPage]

\* what a fetch of each URL can give during a call: U1 fails or gives its
\* page, U2 gives a page too short to use or its page, U3 gives its page
CollectWeb ==
    [u \in Urls |-> IF u = U1 THEN {PageRequestError, PageLong}
                    ELSE IF u = U2 THEN {PageShort, PageLong}
                    ELSE {PageOtherError, PageLong}]

NoGen == [raises |-> TRUE, hasText |-> FALSE, text |-> <<>>]

GenText == [raises |-> FALSE, hasText |-> TRUE, text |-> <<"a">>]

\* two feeds holding es, cut after the first k entries; the first feed's
\* parse can raise
FeedWorlds ==
    {<<[raises |-> r, entries |-> SubSeq(es, 1, k)],
       [raises |-> FALSE, entries |-> SubSeq(es, k + 1, Len(es))]>> :
        <<es, k, r>> \in {t \in SeqsUpTo(EntryPool, MaxEntries) \X (0..MaxEntries)
                                \X BOOLEAN : t[2] <= Len(t[1]) /\ (t[3] => t[2] = 1)}}

(***************************************************************************)
(* load_sent_set, save_sent_set                                            *)
(*                                                                         *)
(* SENT_FILE is what is on disk: kind "absent" (no file), "list" (a JSON   *)
(* array of the URLs in urls) or "invalid" (anything json.load rejects or  *)
(* that is no list: a truncated or partly written file, an object).        *)
(***************************************************************************)
FileAbsent == [kind |-> "absent", urls |-> {}]
FileInvalid == [kind |-> "invalid", urls |-> {}]
FileList(S) == [kind |-> "list", urls |-> S]

\* load_sent_set with the bug of never reading the file
load_sent_set_nothing(read_raises) == {}

\* read_raises: open or json.load raises on a file that holds a list (an I/O
\* error); a file that does not parse raises by itself
load_sent_set(read_raises) ==
    IF ~ PERSIST_SENT THEN {}
    ELSE IF SENT_FILE.kind # "absent"
         THEN IF read_raises \/ SENT_FILE.kind = "invalid" THEN {}
              ELSE SENT_FILE.urls
         ELSE {}

\* the file after save_sent_set(s). write: "ok"; "open_raises" (open fails,
\* the file is untouched); "dump_raises" (open(..., "w") has truncated the
\* file and json.dump fails before the array is complete)
save_sent_set(s, write) ==
    IF ~ PERSIST_SENT THEN SENT_FILE
    ELSE IF write = "ok" THEN FileList(s)
    ELSE IF write = "open_raises" THEN SENT_FILE
    ELSE FileInvalid

WriteOutcomes == {"ok", "open_raises", "dump_raises"}

(***************************************************************************)
(* fetch_page                                                              *)
(***************************************************************************)
TextCap == 6000

\* page is what the network and the parser give for the URL: error is
\* "request" (requests raises), "other" (any other exception) or "none", and
\* then text is the joined text of the paragraphs
fetch_page(page) ==
    IF page.error = "request" THEN <<None, <<"fetch_error">>>>
    ELSE IF page.error = "other" THEN <<None, <<"extract_error">>>>
    ELSE IF page.text = <<>> \/ Len(page.text) < MIN_ARTICLE_LENGTH
         THEN <<None, None>>
    ELSE <<PySliceTo(page.text, TextCap), None>>

(***************************************************************************)
(* collect_and_summarize                                                   *)
(***************************************************************************)
\* a time is <<t>> (a parsed time tuple) or <<>> (absent: datetime(*None[:6])
\* raises and the next source is tried)
ResolvePublished(e, now) ==
    IF Len(e.published_parsed) > 0 THEN e.published_parsed[1]
    ELSE IF Len(e.updated_parsed) > 0 THEN e.updated_parsed[1]
    ELSE now

\* the candidates of one feed: nothing when parsing raises
FeedCandidates(feed, now) ==
    IF feed.raises THEN <<>>
    ELSE LET es == PySliceTo(feed.entries, MAX_PER_FEED)
         IN  [i \in 1..Len(es) |-> <<ResolvePublished(es[i], now), es[i]>>]

RECURSIVE MergeFeeds(_, _)
MergeFeeds(feeds, now) ==
    IF feeds = <<>> THEN <<>>
    ELSE FeedCandidates(Head(feeds), now) \o MergeFeeds(Tail(feeds), now)

\* list.sort(key=lambda x: x[0], reverse=True): stable, equal keys keep
\* their order
RECURSIVE InsertNewestFirst(_, _)
InsertNewestFirst(sorted, c) ==
    IF sorted = <<>> THEN <<c>>
    ELSE IF Head(sorted)[1] >= c[1]
         THEN <<Head(sorted)>> \o InsertNewestFirst(Tail(sorted), c)
         ELSE <<c>> \o sorted

RECURSIVE SortNewestFirst(_)
SortNewestFirst(cs) ==
    IF cs = <<>> THEN <<>>
    ELSE InsertNewestFirst(SortNewestFirst(SubSeq(cs, 1, Len(cs) - 1)),
                           cs[Len(cs)])

\* published.isoformat()
IsoFormat(t) == <<"iso", t>>

EntryTitle(entry, url) ==
    IF Attr(entry, "title") # None THEN Attr(entry, "title") ELSE url

EntryFallback(entry) ==
    IF Truthy(Attr(entry, "summary")) THEN Attr(entry, "summary")
    ELSE IF Truthy(Attr(entry, "description")) THEN Attr(entry, "description")
    ELSE None

\* the text the filters and the summarizer get: the extracted text, or else
\* the feed's summary or description, or else None
EffectiveText(entry, page) ==
    IF Truthy(fetch_page(page)[1]) THEN fetch_page(page)[1]
    ELSE EntryFallback(entry)

NoPage == [error |-> "not_fetched", text |-> <<>>]

\* what one iteration did, for the properties
Trace(u, f, p, fl, sm, ac) ==
    [url |-> u, fetched |-> f, page |-> p, filtered |-> fl, summarized |-> sm,
     accepted |-> ac]

\* lines 248-249 of the loop, with the bug of stopping one item late
LoopDone_off_by_one ==
    pos > Len(candidates) \/ Len(collected) > MAX_ITEMS

\* the for loop is over: the candidates are exhausted, or line 248 breaks
LoopDone ==
    pos > Len(candidates) \/ Len(collected) >= MAX_ITEMS

\* line 254, with the bug of never finding the URL in the set
AlreadySent_never(url) == FALSE

AlreadySent(url) == url \in sent

\* lines 250-256: the candidate has no URL or was sent before
LoopSkip ==
    /\ pc = "loop"
    /\ ~ LoopDone
    /\ LET url == EntryLink(candidates[pos][2])
       IN  /\ url = <<>> \/ AlreadySent(url)
           /\ log' = Append(log, Trace(url, FALSE, NoPage, FALSE, FALSE, FALSE))
    /\ pos' = pos + 1
    /\ UNCHANGED <<cfgVars, WEB, SENT_FILE, pc, run, sent, candidates, collected,
                   hist, arg, ret>>

\* lines 258-283: fetch, fall back, filter, summarize, append
LoopTry ==
    /\ pc = "loop"
    /\ ~ LoopDone
    /\ LET published == candidates[pos][1]
           entry == candidates[pos][2]
           url == EntryLink(entry)
           title == EntryTitle(entry, url)
       IN  /\ url # <<>> /\ ~ AlreadySent(url)
           /\ \E page \in WEB[url],
                 gen \in (IF Truthy(GOOGLE_API_KEY) /\ GEMINI_AVAILABLE
                          THEN {NoGen, GenText} ELSE {NoGen}) :
                LET extracted == EffectiveText(entry, page)
                IN  IF extracted = None
                    THEN /\ collected' = collected
                         /\ log' = Append(log,
                               Trace(url, TRUE, page, FALSE, FALSE, FALSE))
                    ELSE IF ~ passes_filters(entry, extracted)[1]
                    THEN /\ collected' = collected
                         /\ log' = Append(log,
                               Trace(url, TRUE, page, TRUE, FALSE, FALSE))
                    ELSE /\ collected' = Append(collected,
                               [title |-> title, url |-> url,
                                summary |-> summarize(title, extracted, gen),
                                published |-> IsoFormat(published)])
                         /\ log' = Append(log,
                               Trace(url, TRUE, page, TRUE, TRUE, TRUE))
    /\ pos' = pos + 1
    /\ UNCHANGED <<cfgVars, WEB, SENT_FILE, pc, run, sent, candidates, hist,
                   arg, ret>>

\* line 285: return collected
LoopExit ==
    /\ pc = "loop"
    /\ LoopDone
    /\ pc' = "collected"
    /\ UNCHANGED <<cfgVars, WEB, SENT_FILE, run, sent, candidates, pos,
                   collected, log, hist, arg, ret>>

(***************************************************************************)
(* main                                                                    *)
(***************************************************************************)
ItemUrls(items) == {items[i].url : i \in 1..Len(items)}

\* the URLs the file holds, as load_sent_set reads it without an I/O error
PersistedUrls(file) == IF file.kind = "list" THEN file.urls ELSE {}

\* a read can raise only where there is a file that would otherwise load
ReadOutcomes ==
    IF PERSIST_SENT /\ SENT_FILE.kind = "list" THEN BOOLEAN ELSE {FALSE}

\* lines 319-326 and 224-246: main starts (again, for a later run),
\* collect_and_summarize loads the sent set, parses the feeds and sorts.
\* (The load of line 323 is only counted and printed.)
Start ==
    /\ pc \in {"idle", "done"}
    /\ run < MaxRuns
    /\ \E read_raises \in ReadOutcomes, now \in NowValues :
         /\ sent' = load_sent_set(read_raises)
         /\ candidates' = SortNewestFirst(MergeFeeds(FEED_URLS, now))
         /\ hist' = [merged |-> MergeFeeds(FEED_URLS, now),
                     loadRaised |-> read_raises,
                     fileBefore |-> SENT_FILE,
                     outcome |-> "running",
                     reloadRaised |-> FALSE,
                     write |-> "none",
                     prev |-> [outcome |-> IF pc = "done" THEN hist.outcome
                                           ELSE "none",
                               reloadRaised |-> IF pc = "done"
                                                THEN hist.reloadRaised
                                                ELSE FALSE,
                               write |-> IF pc = "done" THEN hist.write
                                         ELSE "none",
                               urls |-> ItemUrls(collected)]]
    /\ pc' = "loop"
    /\ run' = run + 1
    /\ pos' = 1
    /\ collected' = <<>>
    /\ log' = <<>>
    /\ UNCHANGED <<cfgVars, WEB, SENT_FILE, arg, ret>>

\* lines 327-329: nothing collected, main returns
MainNoItems ==
    /\ pc = "collected"
    /\ collected = <<>>
    /\ pc' = "done"
    /\ hist' = [hist EXCEPT !.outcome = "no_items"]
    /\ UNCHANGED <<cfgVars, WEB, SENT_FILE, run, sent, candidates, pos,
                   collected, log, arg, ret>>

\* send_email: "printed" in a dry run, "raised" when the credentials are
\* missing or the SMTP session raises, "sent" otherwise
send_email(smtp_raises) ==
    IF DRY_RUN THEN "printed"
    ELSE IF ~ CREDENTIALS THEN "raised"
    ELSE IF smtp_raises THEN "raised"
    ELSE "sent"

\* lines 330-332: compose and send; an exception of send_email ends main
MainSend ==
    /\ pc = "collected"
    /\ collected # <<>>
    /\ \E smtp_raises \in (IF DRY_RUN \/ ~ CREDENTIALS THEN {FALSE} ELSE BOOLEAN) :
         LET r == send_email(smtp_raises)
         IN  /\ pc' = IF r = "raised" THEN "done" ELSE "persist"
             /\ hist' = [hist EXCEPT !.outcome = r]
    /\ UNCHANGED <<cfgVars, WEB, SENT_FILE, run, sent, candidates, pos,
                   collected, log, arg, ret>>

\* lines 335-340: reload the set, add the URLs of the items, save
MainPersist ==
    /\ pc = "persist"
    /\ IF PERSIST_SENT /\ ~ DRY_RUN
       THEN \E read_raises \in ReadOutcomes, write \in WriteOutcomes :
              /\ SENT_FILE' = save_sent_set(
                     load_sent_set(read_raises) \cup ItemUrls(collected), write)
              /\ hist' = [hist EXCEPT !.write = write,
                                        !.reloadRaised = read_raises]
       ELSE UNCHANGED <<SENT_FILE, hist>>
    /\ pc' = "done"
    /\ UNCHANGED <<cfgVars, WEB, run, sent, candidates, pos, collected, log,
                   arg, ret>>

(***************************************************************************)
(* SpecCollect: one call of collect_and_summarize(MAX_ITEMS), any feeds    *)
(***************************************************************************)
InitCollect ==
    /\ FEED_URLS \in FeedWorlds
    /\ ALLOW_DOMAINS = {HostAllowed}
    /\ INCLUDE_KEYWORDS = <<>>
    /\ EXCLUDE_KEYWORDS = <<>>
    /\ MAX_ITEMS \in 1..MaxItems
    /\ MAX_PER_FEED \in {1, MaxEntries}
    /\ MIN_ARTICLE_LENGTH = RunMinLength
    /\ DRY_RUN = FALSE
    /\ GOOGLE_API_KEY = ApiKey
    /\ GEMINI_AVAILABLE = FALSE
    /\ CREDENTIALS = TRUE
    /\ PERSIST_SENT = TRUE
    /\ SENT_FILE \in {FileAbsent, FileList({U1})}
    /\ WEB = CollectWeb
    /\ pc = "idle" /\ run = 0 /\ sent = {} /\ candidates = <<>> /\ pos = 0
    /\ collected = <<>> /\ log = <<>> /\ hist = <<>>
    /\ arg = None
    /\ ret = None

NextCollect == Start \/ LoopSkip \/ LoopTry \/ LoopExit

SpecCollect == InitCollect /\ [][NextCollect]_vars

(***************************************************************************)
(* Spec: runs of main, one after the other, over the same feeds            *)
(***************************************************************************)
\* one feed of the entries A (always has a fallback text) and B (has none)
MainWorlds ==
    {<<[raises |-> FALSE, entries |-> es]>> :
        es \in SeqsUpTo({EntryA, EntryB}, MaxEntries)}

\* the network gives the page of U1; for U2 it fails in every run, gives the
\* page in every run, or does either
MainWebs ==
    {[u \in Urls |-> IF u = U2 THEN w ELSE {PageLong}] :
        w \in {{PageRequestError}, {PageLong}, {PageRequestError, PageLong}}}

Init ==
    /\ FEED_URLS \in MainWorlds
    /\ ALLOW_DOMAINS = {HostAllowed}
    /\ INCLUDE_KEYWORDS = <<>>
    /\ EXCLUDE_KEYWORDS = <<>>
    /\ MAX_ITEMS \in 1..MaxItems
    /\ MAX_PER_FEED = MaxEntries
    /\ MIN_ARTICLE_LENGTH = RunMinLength
    /\ DRY_RUN \in BOOLEAN
    /\ GOOGLE_API_KEY = ApiKey
    /\ GEMINI_AVAILABLE \in BOOLEAN
    /\ CREDENTIALS \in (IF DRY_RUN THEN {TRUE} ELSE BOOLEAN)
    /\ PERSIST_SENT \in BOOLEAN
    /\ SENT_FILE \in {FileAbsent, FileList({U1})}
    /\ WEB \in MainWebs
    /\ pc = "idle" /\ run = 0 /\ sent = {} /\ candidates = <<>> /\ pos = 0
    /\ collected = <<>> /\ log = <<>> /\ hist = <<>>
    /\ arg = None
    /\ ret = None

Next ==
    \/ Start
    \/ LoopSkip
    \/ LoopTry
    \/ LoopExit
    \/ MainNoItems
    \/ MainSend
    \/ MainPersist

Spec == Init /\ [][Next]_vars

(***************************************************************************)
(* SpecSummary: simple_extractive_summary and summarize on bounded inputs  *)
(***************************************************************************)
MaxPieces == 5
MaxSentences == 3

Pieces == {<<"a">>, <<".">>, <<" ">>, <<"a", ".", " ">>}

SummaryTexts == {Flatten(p) : p \in SeqsUpTo(Pieces, MaxPieces)} \cup {None}

GenOutcomes ==
    {NoGen}
    \cup [raises : {FALSE}, hasText : BOOLEAN, text : {<<>>, <<" ", "a", "\n">>}]

SummaryArgs ==
    [fn : {"simple_extractive_summary"}, title : {<<"a">>}, text : SummaryTexts,
     max_sentences : 1..MaxSentences, gen : {NoGen}]
    \cup
    [fn : {"summarize"}, title : {<<"a">>}, text : SummaryTexts,
     max_sentences : {DefaultMaxSentences}, gen : GenOutcomes]

InitSummary ==
    /\ FEED_URLS = <<>>
    /\ ALLOW_DOMAINS = {HostAllowed}
    /\ INCLUDE_KEYWORDS = <<>>
    /\ EXCLUDE_KEYWORDS = <<>>
    /\ MAX_ITEMS = 1
    /\ MAX_PER_FEED = 1
    /\ MIN_ARTICLE_LENGTH = 2
    /\ DRY_RUN = FALSE
    /\ GOOGLE_API_KEY \in {<<>>, ApiKey}
    /\ GEMINI_AVAILABLE \in BOOLEAN
    /\ CREDENTIALS = TRUE
    /\ PERSIST_SENT = TRUE
    /\ SENT_FILE = FileAbsent
    /\ WEB = <<>>
    /\ IdleRun
    /\ arg \in SummaryArgs
    /\ ret = None

CallSimpleExtractiveSummary ==
    /\ arg.fn = "simple_extractive_summary"
    /\ ret = None
    /\ ret' = simple_extractive_summary(arg.text, arg.max_sentences)
    /\ UNCHANGED <<cfgVars, WEB, SENT_FILE, runVars, arg>>

CallSummarize ==
    /\ arg.fn = "summarize"
    /\ ret = None
    /\ ret' = summarize(arg.title, arg.text, arg.gen)
    /\ UNCHANGED <<cfgVars, WEB, SENT_FILE, runVars, arg>>

NextSummary == CallSimpleExtractiveSummary \/ CallSummarize

SpecSummary == InitSummary /\ [][NextSummary]_vars

(***************************************************************************)
(* SpecFilter: passes_filters on bounded inputs                            *)
(***************************************************************************)
MaxTextLen == 3
MaxMinLength == 3

FilterEntries ==
    [link : {<<>>, U1, U2, U3},
     title : {None, <<"a">>, <<"B">>, <<"a", "b">>},
     summary : {None, <<"b">>, Rep(MaxTextLen)},
     description : {None, <<"A", "a">>}]

FilterTexts == {None} \cup {Rep(n) : n \in 0..MaxTextLen}

InitFilter ==
    /\ FEED_URLS = <<>>
    /\ ALLOW_DOMAINS \in {{HostAllowed}, {HostOther, <<"i", "n">>}}
    /\ INCLUDE_KEYWORDS \in {<<>>, <<<<"a">>>>, <<<<"c">>, <<"b">>>>}
    /\ EXCLUDE_KEYWORDS \in {<<>>, <<<<"b">>>>, <<<<"a", "a">>, <<"a">>>>}
    /\ MAX_ITEMS = 1
    /\ MAX_PER_FEED = 1
    /\ MIN_ARTICLE_LENGTH \in 0..MaxMinLength
    /\ DRY_RUN = FALSE
    /\ GOOGLE_API_KEY = <<>>
    /\ GEMINI_AVAILABLE = FALSE
    /\ CREDENTIALS = TRUE
    /\ PERSIST_SENT = TRUE
    /\ SENT_FILE = FileAbsent
    /\ WEB = <<>>
    /\ IdleRun
    /\ arg \in [fn : {"passes_filters"}, entry : FilterEntries,
                extracted_text : FilterTexts]
    /\ ret = None

CallPassesFilters ==
    /\ arg.fn = "passes_filters"
    /\ ret = None
    /\ ret' = passes_filters(arg.entry, arg.extracted_text)
    /\ UNCHANGED <<cfgVars, WEB, SENT_FILE, runVars, arg>>

NextFilter == CallPassesFilters

SpecFilter == InitFilter /\ [][NextFilter]_vars

(***************************************************************************)
(* Properties of simple_extractive_summary and summarize (SpecSummary)     *)
(***************************************************************************)
\* s.split("\n")
RECURSIVE SplitLines(_)
SplitLines(s) ==
    LET nl == {i \in 1..Len(s) : s[i] = "\n"}
    IN  IF nl = {} THEN <<s>>
        ELSE LET i == CHOOSE c \in nl : \A d \in nl : c <= d
             IN  <<SubSeq(s, 1, i - 1)>> \o SplitLines(SubSeq(s, i + 1, Len(s)))

IsBullet(line) == Len(line) >= 2 /\ line[1] = "-" /\ line[2] = " "

\* the text as the summarizer reads it, and its sentences
SummaryInput == Strip(CollapseWs(IF Truthy(arg.text) THEN arg.text ELSE <<>>))
InputSentences == SentenceSplit(SummaryInput)

SesReturned == arg.fn = "simple_extractive_summary" /\ ret # None

\* C5: simple_extractive_summary(text, N) returns "" for empty input, and for a
\* text of k >= 1 sentences the first sentence as the headline line followed by
\* exactly min(k, N) - 1 bullet lines, the remaining sentences of the pool.
C5_HeadlineAndBullets ==
    SesReturned =>
        IF SummaryInput = <<>> THEN ret = <<>>
        ELSE LET lines == SplitLines(ret)
                 k == Len(InputSentences)
                 n == Min2(k, arg.max_sentences)
             IN  /\ lines[1] = InputSentences[1]
                 /\ SelectSeq(Tail(lines), IsBullet)
                      = [i \in 1..(n - 1) |-> BulletLine(InputSentences[i + 1])]

\* the parts of C5 the code does satisfy: five sentences, N = 3
C5_FiveSentences ==
    /\ SesReturned
    /\ Len(InputSentences) = 5
    /\ arg.max_sentences = 3
    /\ Len(SelectSeq(Tail(SplitLines(ret)), IsBullet)) = 2

ExternalConfigured == Truthy(GOOGLE_API_KEY) /\ GEMINI_AVAILABLE

\* the external call gave no usable text: it raised, or its response is malformed
ExternalFailed ==
    arg.gen.raises \/ ~ (arg.gen.hasText /\ Truthy(arg.gen.text))

IsStr(v) == v # None /\ \A i \in 1..Len(v) : v[i] \in STRING

\* C6: summarize returns a string in every outcome of the external call, and
\* whenever the external path is unavailable or fails (an exception, a
\* malformed response with no text) the string is simple_extractive_summary(text).
C6_FallbackOnFailure ==
    (arg.fn = "summarize" /\ ret # None) =>
        /\ IsStr(ret)
        /\ (~ ExternalConfigured \/ ExternalFailed)
              => ret = simple_extractive_summary(arg.text, DefaultMaxSentences)

(***************************************************************************)
(* Properties of passes_filters (SpecFilter)                               *)
(***************************************************************************)
FilterReturned == arg.fn = "passes_filters" /\ ret # None

F_dom == domain_of(EntryLink(arg.entry))

F_combined ==
    Lower(IF Truthy(arg.entry.title) THEN arg.entry.title ELSE <<>>)
    \o <<" ">> \o Lower(EntrySummary(arg.entry))

DomainOk == \E allow \in ALLOW_DOMAINS : IsSubstr(allow, F_dom)

ExcludeHits ==
    {i \in 1..Len(EXCLUDE_KEYWORDS) : IsSubstr(EXCLUDE_KEYWORDS[i], F_combined)}

IncludeHits ==
    {i \in 1..Len(INCLUDE_KEYWORDS) : IsSubstr(INCLUDE_KEYWORDS[i], F_combined)}

IncludeOk == INCLUDE_KEYWORDS = <<>> \/ IncludeHits # {}

F_len ==
    IF Truthy(arg.extracted_text) THEN Len(arg.extracted_text)
    ELSE Len(EntrySummary(arg.entry))

\* passes_filters was given a text (not None, not "") shorter than the minimum
ShortText ==
    /\ FilterReturned
    /\ Truthy(arg.extracted_text)
    /\ Len(arg.extracted_text) < MIN_ARTICLE_LENGTH

\* C7 as stated: every text shorter than MIN_ARTICLE_LENGTH is rejected with
\* the reason too_short(len=<n>), n the length of the text.
C7_AlwaysTooShort ==
    ShortText => ret = <<FALSE, <<"too_short", Len(arg.extracted_text)>>>>

\* C7 as amended: a non-empty text shorter than MIN_ARTICLE_LENGTH is always
\* rejected; the reason is too_short(len=<n>) when the domain, exclude and
\* include checks pass, and the reason of one of those checks otherwise.
C7_ShortTextRejected ==
    ShortText =>
        /\ ret[1] = FALSE
        /\ IF DomainOk /\ ExcludeHits = {} /\ IncludeOk
           THEN ret[2] = <<"too_short", Len(arg.extracted_text)>>
           ELSE ret[2][1] \in {"domain_not_allowed", "exclude_keyword",
                               "include_keywords_not_matched"}

C7_Witness ==
    /\ ShortText
    /\ Len(EntrySummary(arg.entry)) >= MIN_ARTICLE_LENGTH
    /\ ret[2][1] = "too_short"

\* C8: the checks run in the order domain, exclude, include, length, and the
\* reason is that of the first failing check; (True, "ok") exactly when none
\* fails.
C8_FirstFailingCheck ==
    FilterReturned =>
        /\ ~ DomainOk => ret = <<FALSE, <<"domain_not_allowed", F_dom>>>>
        /\ (DomainOk /\ ExcludeHits # {}) =>
              ret = <<FALSE, <<"exclude_keyword",
                       EXCLUDE_KEYWORDS[CHOOSE i \in ExcludeHits :
                                           \A j \in ExcludeHits : i <= j]>>>>
        /\ (DomainOk /\ ExcludeHits = {} /\ ~ IncludeOk) =>
              ret = <<FALSE, <<"include_keywords_not_matched">>>>
        /\ (DomainOk /\ ExcludeHits = {} /\ IncludeOk
               /\ F_len < MIN_ARTICLE_LENGTH) =>
              ret = <<FALSE, <<"too_short", F_len>>>>
        /\ (ret = <<TRUE, <<"ok">>>>) <=>
              (DomainOk /\ ExcludeHits = {} /\ IncludeOk
                 /\ F_len >= MIN_ARTICLE_LENGTH)

\* a candidate that matches an include keyword and an exclude keyword that is
\* not the first of the list, and is rejected for the exclude keyword
C8_Witness ==
    /\ FilterReturned
    /\ DomainOk
    /\ IncludeHits # {}
    /\ ExcludeHits # {} /\ 1 \notin ExcludeHits
    /\ ret[2][1] = "exclude_keyword"

(***************************************************************************)
(* Properties of collect_and_summarize (SpecCollect)                       *)
(***************************************************************************)
CandidateUrl(i) == EntryLink(candidates[i][2])

\* C2: a candidate whose URL is in the set loaded at the start of the call is
\* skipped before fetch_page, passes_filters and summarize are called for it,
\* and its URL is not in the list returned.
C2_SentSkippedBeforeWork ==
    /\ \A i \in 1..Len(log) :
         CandidateUrl(i) \in sent =>
            ~ log[i].fetched /\ ~ log[i].filtered /\ ~ log[i].summarized
    /\ \A j \in 1..Len(collected) : collected[j].url \notin sent

\* the call has skipped a candidate that was sent before, and accepted another
C2_Witness ==
    /\ pc = "collected"
    /\ \E i \in 1..Len(log) : CandidateUrl(i) \in sent
    /\ collected # <<>>

\* the candidate the loop examined at position i qualifies: it has a URL that
\* is not in the sent set, it has an effective text (the page fetched for it,
\* or else the feed's summary or description), and the filters pass it
Qualifies(i) ==
    LET entry == candidates[i][2]
        text == EffectiveText(entry, log[i].page)
    IN  /\ CandidateUrl(i) # <<>>
        /\ CandidateUrl(i) \notin sent
        /\ text # None
        /\ passes_filters(entry, text)[1]

\* cs is ms sorted by descending timestamp, equal timestamps in the order of ms
StableNewestFirst(cs, ms) ==
    /\ Len(cs) = Len(ms)
    /\ \A i \in 1..Len(cs) : \A j \in i..Len(cs) : cs[i][1] >= cs[j][1]
    /\ \A k \in {ms[i][1] : i \in 1..Len(ms)} :
         LET HasKey(c) == c[1] = k
         IN  SelectSeq(cs, HasKey) = SelectSeq(ms, HasKey)

\* the positions examined, and among them the qualifying ones, in order
Examined == [i \in 1..Len(log) |-> i]
Accepted == SelectSeq(Examined, Qualifies)

\* C9: collect_and_summarize(max_items) returns the first max_items qualifying
\* candidates of the merged list sorted newest first (stable); fewer only when
\* fewer qualify, never more; nothing after the max_items-th accepted
\* candidate is examined.
C9_FirstQualifying ==
    pc = "collected" =>
        /\ StableNewestFirst(candidates, hist.merged)
        /\ Len(collected) = Len(Accepted)
        /\ \A j \in 1..Len(collected) :
             /\ collected[j].url = CandidateUrl(Accepted[j])
             /\ collected[j].published = IsoFormat(candidates[Accepted[j]][1])
        /\ Len(collected) <= MAX_ITEMS
        /\ Len(collected) < MAX_ITEMS => Len(log) = Len(candidates)
        /\ Len(collected) = MAX_ITEMS => Accepted[Len(Accepted)] = Len(log)

\* sorting changed the order and kept a tie of two different entries, a
\* fetched candidate was rejected, and the call stopped at max_items with
\* candidates left
C9_Witness ==
    /\ pc = "collected"
    /\ candidates # hist.merged
    /\ \E i \in 1..(Len(candidates) - 1) :
         /\ candidates[i][1] = candidates[i + 1][1]
         /\ candidates[i][2] # candidates[i + 1][2]
    /\ \E i \in 1..Len(log) : log[i].fetched /\ ~ Qualifies(i)
    /\ Len(collected) = MAX_ITEMS
    /\ Len(log) < Len(candidates)

\* C10: the list returned never holds two items with the same URL.
C10_NoDuplicateUrl ==
    \A i \in 1..Len(collected) : \A j \in 1..Len(collected) :
        i # j => collected[i].url # collected[j].url

(***************************************************************************)
(* Properties of the runs of main (Spec)                                   *)
(***************************************************************************)
\* collect_and_summarize has returned in a run that follows a run which sent
\* for real and saved the set, and this run loaded that set
SecondCall ==
    /\ pc = "collected"
    /\ run >= 2
    /\ hist.prev.outcome = "sent"
    /\ hist.prev.write = "ok"
    /\ ~ hist.loadRaised

\* every fetch of a URL gives the same page in both runs
WebUnchanged == \A u \in Urls : Cardinality(WEB[u]) = 1

\* C1 as stated: after a run that sent and saved, a second call over the same
\* feeds (and pages) returns no item.
C1_SecondCallEmpty ==
    (SecondCall /\ WebUnchanged /\ ~ hist.prev.reloadRaised) => collected = <<>>

\* C1 as amended: after a run that sent and saved, a second call over the same
\* feeds returns no item whose URL the first run delivered.
C1_SecondCallNothingDelivered ==
    SecondCall => ItemUrls(collected) \cap hist.prev.urls = {}

\* the second call returns items, none of them delivered by the first run
C1_Witness ==
    /\ SecondCall
    /\ WebUnchanged
    /\ hist.prev.urls # {}
    /\ collected # <<>>

FileModified ==
    PersistedUrls(SENT_FILE) # PersistedUrls(hist.fileBefore)

\* C3: a run of main modifies the persisted set only after a real send that
\* did not raise; a dry run, a run whose send raises and a run without items
\* leave it unchanged; a modification adds exactly the URLs of the run's items.
C3_ModifiedOnlyBySend ==
    pc = "done" =>
        /\ FileModified => hist.outcome = "sent"
        /\ hist.outcome \in {"printed", "raised", "no_items"} => ~ FileModified
        /\ FileModified =>
             PersistedUrls(SENT_FILE)
               = PersistedUrls(hist.fileBefore) \cup ItemUrls(collected)

\* C4: the persisted set after a run is a superset of the persisted set before
\* it, also when a read or a write of the file fails.
C4_OnlyGrows ==
    pc = "done" => PersistedUrls(hist.fileBefore) \subseteq PersistedUrls(SENT_FILE)

====
